---- MODULE Spec2Model ----
(***************************************************************************)
(* State-machine model of the job_search web UI's client core:             *)
(*   - JobList.jsx : snapshot reconciliation (enter / exit / move),        *)
(*                   animation timers, manual sort and drag-and-drop;      *)
(*   - App.jsx     : the per-collection stores and their refreshes.        *)
(* One action models one handler, effect run or timer callback, together   *)
(* with the re-render and the effects React runs as its consequence.       *)
(***************************************************************************)
EXTENDS Integers, Sequences, FiniteSets, TLC

(***************************************************************************)
(* Bounds of the model                                                     *)
(***************************************************************************)
\* job ids are 1..MaxId
MaxId == 4
\* number of snapshots the job list receives in one run
MaxRefreshes == 3
\* longest list a store's fetch returns
MaxStoreLen == 2
\* refreshes issued after the four fetches of the mount effect
MaxRefetches == 1
\* message events the push channel receives in one run
MaxMessages == 2
\* calls of connect() are told apart modulo this number
MaxConnects == 3
\* clicks on the "show archived" toggle of the deep-dive list in one run
MaxToggles == 2

(***************************************************************************)
(* Program constants                                                       *)
(***************************************************************************)
\* null (useState(null), indexOf's "not found" is modelled separately)
NoId == 0
\* removed.length > 3 : bulk removal, no exit animation
BulkThreshold == 3
\* setTimeout durations, in ms
ExitMs == 650
EnterMs == 500
SettleMs == 450
\* setTimeout(connect, 3000)
ReconnectMs == 3000

Ids == 1..MaxId

RECURSIVE Gcd(_, _)
Gcd(a, b) == IF b = 0 THEN a ELSE Gcd(b, a % b)

\* the model's clock advances in steps that divide every timer duration
TickMs == Gcd(ReconnectMs, Gcd(ExitMs, Gcd(EnterMs, SettleMs)))

Abs(x) == IF x < 0 THEN -x ELSE x

Range(s) == {s[i] : i \in DOMAIN s}

(***************************************************************************)
(* Items and snapshots                                                     *)
(***************************************************************************)
\* the domain fields of the job with a given id (passed through opaquely;
\* title and days_ago are the two kinds of sort column: string and number,
\* -1 standing for a null days_ago)
TitleOf(id) == (id * 2) % 3
DaysOf(id) == IF id = 2 THEN -1 ELSE (MaxId + 1 - id) \div 2

Item(id) == [job_id |-> id, title |-> TitleOf(id), days_ago |-> DaysOf(id)]

\* jobs.map((j) => j.job_id)
IdSeq(js) == [i \in DOMAIN js |-> js[i].job_id]

\* new Set(jobs.map((j) => j.job_id))
IdSet(js) == {js[i].job_id : i \in DOMAIN js}

\* Array.prototype.indexOf, 0-based, -1 when absent
IndexOf(s, x) ==
  IF \E i \in DOMAIN s : s[i] = x
  THEN (CHOOSE i \in DOMAIN s : s[i] = x /\ \A k \in 1..(i - 1) : s[k] # x) - 1
  ELSE -1

\* all sequences of distinct ids (a Snapshot never repeats an id)
InjectiveSeqs(S) ==
  UNION {{s \in [1..n -> S] : \A i, k \in 1..n : i # k => s[i] # s[k]} :
         n \in 0..Cardinality(S)}

Snapshot(ids) == [i \in DOMAIN ids |-> Item(ids[i])]

Snapshots == {Snapshot(ids) : ids \in InjectiveSeqs(Ids)}

\* the ids lo..hi in the server's order, and the same run after the order
\* has been reversed
Window(lo, hi) == [i \in 1..(hi - lo + 1) |-> lo + i - 1]
Reverse(s) == [i \in DOMAIN s |-> s[Len(s) + 1 - i]]

\* the snapshots the job list is fed in the runs with timers: the empty
\* list, every contiguous run lo..hi of the server's order, and every
\* prefix 1..hi of it in reversed order
WindowSnapshots ==
  {Snapshot(<<>>)}
    \cup {Snapshot(Window(lo, hi)) : lo \in Ids, hi \in Ids}
    \cup {Snapshot(Reverse(Window(1, hi))) : hi \in Ids}

VARIABLES
  jobs,               \* the jobs prop of the render on screen
  prevJobsRef,        \* prevJobsRef.current
  exitingIds,         \* Set, kept in insertion order
  exitingJobsDataRef, \* Map id -> frozen job
  enteringIds,
  settledIds,
  sortKey, sortAsc,
  draggedId, dragOverId, dragDirection,
  exitTimer,          \* <<>> or <<[left, removed]>> : the pending exit timeout
  enterTimers,        \* remaining ticks of the pending entrance timeouts
  settleTimers,       \* remaining ticks of the pending settle timeouts
  lastDiff,           \* locals of the latest run of the diff effect
  reorderOut,         \* onReorder calls made by the latest handler
  refreshes,          \* snapshots received so far
  store,              \* App state: jobs, selectedIds, deepDives, applications
  deepDivesLoaded,
  requests,           \* per store, the fetches issued, in issue order
  escaped,            \* an exception left a refresh uncaught
  showArchivedDives,  \* the "show archived" toggle of the deep-dive list
  includeArchived,    \* per deep-dive fetch, whether its url had include_archived
  saved,              \* the latest saveSelections call (observer of the handler)
  gesture,            \* how the latest drag gesture went (observer of the handlers)
  step,               \* App navigation: the active step
  selectedDiveJobId,
  selectedAppId,
  currentApplication, \* id of the application detail on screen, NoId for null
  appRequests,        \* fetches of /api/applications/<id>, in issue order
  sockets,            \* the WebSockets not yet collected, in construction order
  reconnectTimers,    \* remaining ticks of the pending setTimeout(connect, 3000)
  unmounted,          \* the hook's cleanup has run
  onMessageRef,       \* onMessageRef.current: the selectedAppId its closure holds
  attempts,           \* calls of connect(), counted modulo MaxConnects
  inbound,            \* message events received, in arrival order
  delivered           \* calls of onMessageRef.current, in call order

listVars == <<jobs, prevJobsRef, exitingIds, exitingJobsDataRef, enteringIds,
              settledIds, exitTimer, enterTimers, settleTimers, lastDiff,
              refreshes>>
dragVars == <<sortKey, sortAsc, draggedId, dragOverId, dragDirection, reorderOut,
              gesture>>

storeVars == <<store, deepDivesLoaded, requests, escaped, showArchivedDives,
               includeArchived, saved>>

navVars == <<step, selectedDiveJobId, selectedAppId, currentApplication,
             appRequests>>

wsVars == <<sockets, reconnectTimers, unmounted, onMessageRef, attempts, inbound,
            delivered>>

\* App's state outside the job list
appVars == <<storeVars, navVars, wsVars>>

vars == <<listVars, dragVars, appVars>>

(***************************************************************************)
(* JobList: stale-exit cleanup effect (deps [jobs, exitingIds])            *)
(***************************************************************************)
\* [...prev].filter((id) => exitingJobsDataRef.current.has(id))
ValidExiting(exiting, data) ==
  SelectSeq(exiting, LAMBDA id : id \in DOMAIN data)

\* delete every frozen copy whose id is neither in jobs nor exiting
OrphanCleaned(data, js, exiting) ==
  [id \in {k \in DOMAIN data : k \in IdSet(js) \/ k \in Range(exiting)} |-> data[id]]

(***************************************************************************)
(* JobList: diff effect (deps [jobs])                                      *)
(***************************************************************************)
\* [...prevIds].filter((id) => !currentIds.has(id))
Removed(prev, cur) == SelectSeq(IdSeq(prev), LAMBDA id : id \notin IdSet(cur))

\* [...currentIds].filter((id) => !prevIds.has(id))
Added(prev, cur) == SelectSeq(IdSeq(cur), LAMBDA id : id \notin IdSet(prev))

\* the bulk test written with >= instead of >
DiffBranchOffByOne(removed) ==
  IF Len(removed) >= BulkThreshold THEN "bulk"
  ELSE IF Len(removed) > 0 THEN "exit"
  ELSE "none"

\* which arm of  if (removed.length > 3) ... else if (removed.length > 0) ...
DiffBranch(removed) ==
  IF Len(removed) > BulkThreshold THEN "bulk"
  ELSE IF Len(removed) > 0 THEN "exit"
  ELSE "none"

\* prevJobsRef.current.find((j) => j.job_id === id)
FindJob(js, id) == js[IndexOf(IdSeq(js), id) + 1]

\* removed.forEach((id) => { ...; if (job) exitingJobsDataRef.current.set(id, job) })
Frozen(data, prev, removed) ==
  [id \in DOMAIN data \cup Range(removed) |->
     IF id \in Range(removed) THEN FindJob(prev, id) ELSE data[id]]

\* new Set([...prev, ...removed])
ExitingAfterRemoval(exiting, removed) ==
  exiting \o SelectSeq(removed, LAMBDA id : id \notin Range(exiting))

\* the exiting set the diff effect leaves, per arm
ExitingAfterDiff(branch, exiting, removed) ==
  CASE branch = "bulk" -> <<>>
    [] branch = "exit" -> ExitingAfterRemoval(exiting, removed)
    [] OTHER -> exiting

\* the frozen copies the diff effect leaves, per arm
DataAfterDiff(branch, data, prev, removed) ==
  CASE branch = "bulk" -> <<>>
    [] branch = "exit" -> Frozen(data, prev, removed)
    [] OTHER -> data

\* prevJobsRef.current after the effect: the exit arm returns its cleanup
\* before the assignment on the effect's last line
PrevAfterDiff(branch, prev, cur) == IF branch = "exit" THEN prev ELSE cur

\* added.length > 0 && prevJobsRef.current.length > 0  (never reached by the exit arm)
AnimatesEntrance(branch, prev, added) ==
  branch # "exit" /\ Len(added) > 0 /\ Len(prev) > 0

\* removed.length === 0 && added.length === 0 && prevJobsRef.current.length > 0
DetectsReorder(branch, removed, added, prev) ==
  branch # "exit" /\ Len(removed) = 0 /\ Len(added) = 0 /\ Len(prev) > 0

\* the forEach that keeps the id with the largest |newIdx - oldIdx|
RECURSIVE PrimaryFold(_, _, _, _, _)
PrimaryFold(prevOrder, currentOrder, i, maxMove, primary) ==
  IF i > Len(currentOrder) THEN primary
  ELSE LET distance == Abs((i - 1) - IndexOf(prevOrder, currentOrder[i]))
       IN IF distance > maxMove
          THEN PrimaryFold(prevOrder, currentOrder, i + 1, distance, currentOrder[i])
          ELSE PrimaryFold(prevOrder, currentOrder, i + 1, maxMove, primary)

\* the same forEach keeping the last id among equals (>= for >)
RECURSIVE PrimaryFoldLast(_, _, _, _, _)
PrimaryFoldLast(prevOrder, currentOrder, i, maxMove, primary) ==
  IF i > Len(currentOrder) THEN primary
  ELSE LET distance == Abs((i - 1) - IndexOf(prevOrder, currentOrder[i]))
       IN IF distance >= maxMove /\ distance > 0
          THEN PrimaryFoldLast(prevOrder, currentOrder, i + 1, distance, currentOrder[i])
          ELSE PrimaryFoldLast(prevOrder, currentOrder, i + 1, maxMove, primary)

PrimaryMovedLast(prevOrder, currentOrder) ==
  PrimaryFoldLast(prevOrder, currentOrder, 1, 0, NoId)

PrimaryMoved(prevOrder, currentOrder) ==
  PrimaryFold(prevOrder, currentOrder, 1, 0, NoId)

\* currentOrder.filter((id, idx) => prevOrder[idx] !== id)
Moved(prevOrder, currentOrder) ==
  LET idxs == {i \in DOMAIN currentOrder :
                 i > Len(prevOrder) \/ prevOrder[i] # currentOrder[i]}
      RECURSIVE Pick(_)
      Pick(i) == IF i > Len(currentOrder) THEN <<>>
                 ELSE (IF i \in idxs THEN <<currentOrder[i]>> ELSE <<>>) \o Pick(i + 1)
  IN Pick(1)

Ticks(ms) == ms \div TickMs

\* the render of a new jobs prop and the effects it runs: cleanup of the
\* previous diff effect, stale-exit cleanup, diff, and the stale-exit
\* cleanup of the re-render the state updates cause
SetJobs(J) ==
  /\ LET e1 == ValidExiting(exitingIds, exitingJobsDataRef)
         d1 == OrphanCleaned(exitingJobsDataRef, J, exitingIds)
         prev == prevJobsRef
         removed == Removed(prev, J)
         branch == DiffBranch(removed)
         added == IF branch = "exit" THEN <<>> ELSE Added(prev, J)
         e2 == ExitingAfterDiff(branch, e1, removed)
         d2 == DataAfterDiff(branch, d1, prev, removed)
         reorder == DetectsReorder(branch, removed, added, prev)
         moved == IF reorder THEN Moved(IdSeq(prev), IdSeq(J)) ELSE <<>>
         primary == IF reorder THEN PrimaryMoved(IdSeq(prev), IdSeq(J)) ELSE NoId
         e3 == ValidExiting(e2, d2)
         d3 == OrphanCleaned(d2, J, e2)
     IN /\ jobs' = J
        /\ exitingIds' = e3
        /\ exitingJobsDataRef' = d3
        /\ exitTimer' = IF branch = "exit"
                        THEN <<[left |-> Ticks(ExitMs), removed |-> removed]>>
                        ELSE <<>>
        /\ IF AnimatesEntrance(branch, prev, added)
           THEN /\ enteringIds' = Range(added)
                /\ enterTimers' = enterTimers \cup {Ticks(EnterMs)}
           ELSE UNCHANGED <<enteringIds, enterTimers>>
        /\ IF Len(moved) > 0
           THEN /\ settledIds' = Range(moved)
                /\ settleTimers' = settleTimers \cup {Ticks(SettleMs)}
           ELSE UNCHANGED <<settledIds, settleTimers>>
        /\ prevJobsRef' = PrevAfterDiff(branch, prev, J)
        /\ lastDiff' = [branch |-> branch, removed |-> removed, added |-> added,
                        moved |-> moved, primaryMovedId |-> primary]
  /\ refreshes' = refreshes + 1
  /\ reorderOut' = <<>>
  /\ UNCHANGED <<sortKey, sortAsc, draggedId, dragOverId, dragDirection>>
  /\ UNCHANGED <<gesture, appVars>>

(***************************************************************************)
(* Timers                                                                  *)
(***************************************************************************)
TimerDue ==
  \/ exitTimer # <<>> /\ exitTimer[1].left = 0
  \/ 0 \in enterTimers
  \/ 0 \in settleTimers
  \/ \E i \in DOMAIN reconnectTimers : reconnectTimers[i] = 0

TimerPending ==
  \/ exitTimer # <<>>
  \/ enterTimers # {}
  \/ settleTimers # {}
  \/ reconnectTimers # <<>>

\* TickMs of time pass: no handler runs, every pending timeout gets closer
Tick ==
  /\ TimerPending
  /\ ~TimerDue
  /\ exitTimer' = IF exitTimer = <<>> THEN <<>>
                  ELSE <<[exitTimer[1] EXCEPT !.left = @ - 1]>>
  /\ enterTimers' = {t - 1 : t \in enterTimers}
  /\ settleTimers' = {t - 1 : t \in settleTimers}
  /\ reorderOut' = <<>>
  /\ UNCHANGED <<jobs, prevJobsRef, exitingIds, exitingJobsDataRef, enteringIds,
                 settledIds, lastDiff, refreshes, sortKey, sortAsc, draggedId,
                 dragOverId, dragDirection>>
  /\ reconnectTimers' = [i \in DOMAIN reconnectTimers |-> reconnectTimers[i] - 1]
  /\ UNCHANGED <<gesture, storeVars, navVars, sockets, unmounted, onMessageRef,
                 attempts, inbound, delivered>>

\* the exit timeout: purge the frozen copies and the exiting marks of `removed`
ExitTimeout ==
  /\ exitTimer # <<>>
  /\ exitTimer[1].left = 0
  /\ LET removed == exitTimer[1].removed
         d1 == [id \in DOMAIN exitingJobsDataRef \ Range(removed) |->
                  exitingJobsDataRef[id]]
         e1 == SelectSeq(exitingIds, LAMBDA id : id \notin Range(removed))
     IN /\ exitingIds' = ValidExiting(e1, d1)
        /\ exitingJobsDataRef' = OrphanCleaned(d1, jobs, e1)
  /\ exitTimer' = <<>>
  /\ reorderOut' = <<>>
  /\ UNCHANGED <<jobs, prevJobsRef, enteringIds, settledIds, enterTimers,
                 settleTimers, lastDiff, refreshes, sortKey, sortAsc, draggedId,
                 dragOverId, dragDirection>>
  /\ UNCHANGED <<gesture, appVars>>

\* setTimeout(() => setEnteringIds(new Set()), 500)
EnterTimeout ==
  /\ 0 \in enterTimers
  /\ enteringIds' = {}
  /\ enterTimers' = enterTimers \ {0}
  /\ reorderOut' = <<>>
  /\ UNCHANGED <<jobs, prevJobsRef, exitingIds, exitingJobsDataRef, settledIds,
                 exitTimer, settleTimers, lastDiff, refreshes, sortKey, sortAsc,
                 draggedId, dragOverId, dragDirection>>
  /\ UNCHANGED <<gesture, appVars>>

\* a settle timeout that leaves the marks
SettleTimeoutKeepsMarks ==
  /\ 0 \in settleTimers
  /\ settleTimers' = settleTimers \ {0}
  /\ reorderOut' = <<>>
  /\ UNCHANGED <<jobs, prevJobsRef, exitingIds, exitingJobsDataRef, enteringIds,
                 settledIds, exitTimer, enterTimers, lastDiff, refreshes, sortKey,
                 sortAsc, draggedId, dragOverId, dragDirection>>
  /\ UNCHANGED <<gesture, appVars>>

\* setTimeout(() => setSettledIds(new Set()), 450)
SettleTimeout ==
  /\ 0 \in settleTimers
  /\ settledIds' = {}
  /\ settleTimers' = settleTimers \ {0}
  /\ reorderOut' = <<>>
  /\ UNCHANGED <<jobs, prevJobsRef, exitingIds, exitingJobsDataRef, enteringIds,
                 exitTimer, enterTimers, lastDiff, refreshes, sortKey, sortAsc,
                 draggedId, dragOverId, dragDirection>>
  /\ UNCHANGED <<gesture, appVars>>

(***************************************************************************)
(* What the table renders                                                  *)
(***************************************************************************)
\* [...exitingIds].map((id) => exitingJobsDataRef.current.get(id)).filter(Boolean)
ExitingJobs ==
  LET withData == SelectSeq(exitingIds, LAMBDA id : id \in DOMAIN exitingJobsDataRef)
  IN [i \in DOMAIN withData |-> exitingJobsDataRef[withData[i]]]

\* [...jobs, ...exitingJobs]
AllJobs == jobs \o ExitingJobs

NoDuplicates(s) == \A i, k \in DOMAIN s : i # k => s[i] # s[k]

(***************************************************************************)
(* JobList: the displayed order                                            *)
(***************************************************************************)
\* sortable columns of the model: a string column and the numeric one
SortKeys == {"title", "days_ago"}

Sign(x) == IF x < 0 THEN -1 ELSE IF x > 0 THEN 1 ELSE 0

\* a comparator without the rule for exiting rows
CompareByColumn(a, b, exiting, key, asc) ==
  LET cmp == IF key = "days_ago"
             THEN (IF a.days_ago = -1 /\ b.days_ago = -1 THEN 0
                   ELSE IF a.days_ago = -1 THEN 1
                   ELSE IF b.days_ago = -1 THEN -1
                   ELSE Sign(a.days_ago - b.days_ago))
             ELSE Sign(a.title - b.title)
  IN IF key = "null" THEN 0
     ELSE IF asc THEN cmp ELSE -cmp

\* the comparator handed to Array.prototype.sort: exiting rows last, then
\* the active sort column (a null days_ago counts as Infinity, and
\* Infinity - Infinity is NaN, which sort treats as 0)
Compare(a, b, exiting, key, asc) ==
  LET aExiting == a.job_id \in Range(exiting)
      bExiting == b.job_id \in Range(exiting)
      cmp == IF key = "days_ago"
             THEN (IF a.days_ago = -1 /\ b.days_ago = -1 THEN 0
                   ELSE IF a.days_ago = -1 THEN 1
                   ELSE IF b.days_ago = -1 THEN -1
                   ELSE Sign(a.days_ago - b.days_ago))
             ELSE Sign(a.title - b.title)
  IN IF aExiting /\ ~bExiting THEN 1
     ELSE IF ~aExiting /\ bExiting THEN -1
     ELSE IF aExiting /\ bExiting THEN 0
     ELSE IF key = "null" THEN 0
     ELSE IF asc THEN cmp ELSE -cmp

\* Array.prototype.sort is stable: x goes before the first row that must
\* follow it
RECURSIVE InsertSorted(_, _, _, _, _)
InsertSorted(x, s, exiting, key, asc) ==
  IF s = <<>> THEN <<x>>
  ELSE IF Compare(s[Len(s)], x, exiting, key, asc) <= 0 THEN Append(s, x)
  ELSE Append(InsertSorted(x, SubSeq(s, 1, Len(s) - 1), exiting, key, asc), s[Len(s)])

RECURSIVE SortBy(_, _, _, _)
SortBy(s, exiting, key, asc) ==
  IF s = <<>> THEN <<>>
  ELSE InsertSorted(s[Len(s)], SortBy(SubSeq(s, 1, Len(s) - 1), exiting, key, asc),
                    exiting, key, asc)

\* [...allJobs].sort(...)
SortedJobs == SortBy(AllJobs, exitingIds, sortKey, sortAsc)

\* sortedJobs.filter((j) => !exitingIds.has(j.job_id)).map((j) => j.job_id)
DisplayedIds ==
  IdSeq(SelectSeq(SortedJobs, LAMBDA j : j.job_id \notin Range(exitingIds)))

\* rows that take pointer events and can be dragged: rendered, not exiting
LiveRows == IdSet(AllJobs) \ Range(exitingIds)

(***************************************************************************)
(* JobList: sort and drag handlers                                         *)
(***************************************************************************)
\* a handler that leaves the reconciliation state alone
ListUntouched ==
  UNCHANGED <<jobs, prevJobsRef, exitingIds, exitingJobsDataRef, enteringIds,
              exitTimer, enterTimers, lastDiff, refreshes>>

\* a toggle with two states: the third activation sorts ascending again
HandleSortTwoState(key) ==
  /\ IdSet(AllJobs) # {}
  /\ IF sortKey = key
     THEN sortAsc' = ~sortAsc /\ UNCHANGED sortKey
     ELSE sortKey' = key /\ sortAsc' = TRUE
  /\ reorderOut' = <<>>
  /\ ListUntouched
  /\ UNCHANGED <<settledIds, settleTimers, draggedId, dragOverId, dragDirection>>
  /\ UNCHANGED <<gesture, appVars>>

\* handleSort(key)
HandleSort(key) ==
  /\ IdSet(AllJobs) # {}
  /\ IF sortKey = key
     THEN IF ~sortAsc
          THEN sortKey' = "null" /\ sortAsc' = TRUE
          ELSE sortAsc' = FALSE /\ UNCHANGED sortKey
     ELSE sortKey' = key /\ sortAsc' = TRUE
  /\ reorderOut' = <<>>
  /\ ListUntouched
  /\ UNCHANGED <<settledIds, settleTimers, draggedId, dragOverId, dragDirection>>
  /\ UNCHANGED <<gesture, appVars>>

\* handleDragStart(e, jobId)
HandleDragStart(jobId) ==
  /\ jobId \in LiveRows
  /\ draggedId' = jobId
  /\ gesture' = "dragging"
  /\ reorderOut' = <<>>
  /\ ListUntouched
  /\ UNCHANGED <<settledIds, settleTimers, sortKey, sortAsc, dragOverId, dragDirection>>
  /\ UNCHANGED appVars

\* toIdx > fromIdx ? 'down' : 'up'
Direction(displayed, from, over) ==
  IF IndexOf(displayed, over) > IndexOf(displayed, from) THEN "down" ELSE "up"

\* handleDragOver(e, jobId)
HandleDragOver(jobId) ==
  /\ jobId \in LiveRows
  /\ LET newOverId == IF jobId = draggedId THEN NoId ELSE jobId
     IN IF dragOverId # newOverId
        THEN /\ dragOverId' = newOverId
             /\ dragDirection' = IF newOverId # NoId /\ draggedId # NoId
                                 THEN Direction(DisplayedIds, draggedId, newOverId)
                                 ELSE "null"
        ELSE UNCHANGED <<dragOverId, dragDirection>>
  /\ reorderOut' = <<>>
  /\ ListUntouched
  /\ UNCHANGED <<settledIds, settleTimers, sortKey, sortAsc, draggedId>>
  /\ UNCHANGED <<gesture, appVars>>

\* ids.splice(idx, 1)
SpliceOut(ids, idx) == SubSeq(ids, 1, idx) \o SubSeq(ids, idx + 2, Len(ids))

\* ids.splice(idx, 0, id)  (an index past the end appends)
SpliceIn(ids, idx, id) ==
  LET at == IF idx > Len(ids) THEN Len(ids) ELSE idx
  IN SubSeq(ids, 1, at) \o <<id>> \o SubSeq(ids, at + 1, Len(ids))

\* a reinsertion that shifts the target index for the row just removed
ReorderedShifted(ids, fromIdx, toIdx, id) ==
  SpliceIn(SpliceOut(ids, fromIdx), IF fromIdx < toIdx THEN toIdx - 1 ELSE toIdx, id)

\* ids.splice(fromIdx, 1); ids.splice(toIdx, 0, draggedId)
Reordered(ids, fromIdx, toIdx, id) == SpliceIn(SpliceOut(ids, fromIdx), toIdx, id)

\* draggedId && draggedId !== targetId && onReorder
DropProceeds(targetId) == draggedId # NoId /\ draggedId # targetId

\* a guard without the test of the two indices
DropReordersUnchecked(ids, targetId) == DropProceeds(targetId)

\* draggedId && draggedId !== targetId && onReorder, and both indices found
DropReorders(ids, targetId) ==
  /\ draggedId # NoId
  /\ draggedId # targetId
  /\ IndexOf(ids, draggedId) # -1
  /\ IndexOf(ids, targetId) # -1

\* handleDrop(e, targetId)
HandleDrop(targetId) ==
  /\ targetId \in LiveRows
  /\ LET ids == DisplayedIds
     IN IF DropReorders(ids, targetId)
        THEN /\ reorderOut' = <<Reordered(ids, IndexOf(ids, draggedId),
                                          IndexOf(ids, targetId), draggedId)>>
             /\ sortKey' = "null"
             /\ settledIds' = {draggedId}
             /\ settleTimers' = settleTimers \cup {Ticks(SettleMs)}
             /\ gesture' = "reordered"
        ELSE /\ reorderOut' = <<>>
             /\ gesture' = IF DropProceeds(targetId) THEN "gone" ELSE "noop"
             /\ UNCHANGED <<sortKey, settledIds, settleTimers>>
  /\ draggedId' = NoId
  /\ dragOverId' = NoId
  /\ dragDirection' = "null"
  /\ ListUntouched
  /\ UNCHANGED sortAsc
  /\ UNCHANGED appVars

\* a drag end that leaves the hover highlight
HandleDragEndKeepsHover ==
  /\ draggedId' = NoId
  /\ dragDirection' = "null"
  /\ gesture' = IF draggedId # NoId THEN "ended" ELSE gesture
  /\ reorderOut' = <<>>
  /\ ListUntouched
  /\ UNCHANGED <<settledIds, settleTimers, sortKey, sortAsc, dragOverId>>
  /\ UNCHANGED appVars

\* handleDragEnd()
HandleDragEnd ==
  /\ draggedId' = NoId
  /\ dragOverId' = NoId
  /\ dragDirection' = "null"
  /\ gesture' = IF draggedId # NoId THEN "ended" ELSE gesture
  /\ reorderOut' = <<>>
  /\ ListUntouched
  /\ UNCHANGED <<settledIds, settleTimers, sortKey, sortAsc>>
  /\ UNCHANGED appVars

\* handleTableDragLeave(e), the pointer leaving the table
HandleTableDragLeave ==
  /\ dragOverId # NoId
  /\ dragOverId' = NoId
  /\ reorderOut' = <<>>
  /\ ListUntouched
  /\ UNCHANGED <<settledIds, settleTimers, sortKey, sortAsc, draggedId, dragDirection>>
  /\ UNCHANGED <<gesture, appVars>>

(***************************************************************************)
(* App: navigation state and the effects that follow a render              *)
(***************************************************************************)
\* steps of the StepNav
Steps == {1, 2, 3}

\* Object(n): a Number object, which is === to no number
Boxed(n) == -n

\* d.job_id / a.application_id: a record of a store's list is modelled by
\* its id, negated when the record is an archived one
RecordId(item) == Abs(item)

\* fetch(`/api/applications/${id}`) on its way
AppPending(id) == [id |-> id, status |-> "pending"]

\* d.archived
IsArchived(item) == item < 0

\* a deep-dive list shown as the store holds it
DeepDivesUnfiltered(dives, show) == dives

\* filteredDeepDives: deepDives when the toggle is on, else
\* deepDives.filter(d => !d.archived)
FilteredDeepDives(dives, show) ==
  IF show THEN dives ELSE SelectSeq(dives, LAMBDA d : ~IsArchived(d))

\* step === 2 && !selectedDiveJobId && filteredDeepDives.length > 0
AutoDiveIn(st, dive, shown) ==
  IF st = 2 /\ dive = NoId /\ Len(shown) > 0 THEN RecordId(shown[1]) ELSE dive

\* the same effect in a render that keeps the toggle as it is
AutoDive(st, dive, stores) ==
  AutoDiveIn(st, dive, FilteredDeepDives(stores["deepDives"], showArchivedDives))

\* step === 3 && !selectedAppId && applications.length > 0
AutoApp(st, app, stores) ==
  IF st = 3 /\ app = NoId /\ Len(stores["applications"]) > 0
  THEN RecordId(stores["applications"][1])
  ELSE app

\* the effects of the render that commits (st, dive, app): the one on
\* [fetchCurrentApplication], which runs when selectedAppId differs from the
\* render before (oldApp), the two auto-select effects, and the effect on
\* [fetchCurrentApplication] again for the application auto-selected
AfterEffects(oldApp, st, dive, app, cur, reqs, stores) ==
  LET reqs1 == IF app # oldApp /\ app # NoId THEN Append(reqs, AppPending(app))
               ELSE reqs
      cur1 == IF app # oldApp /\ app = NoId THEN NoId ELSE cur
      app2 == AutoApp(st, app, stores)
  IN [step |-> st,
      dive |-> AutoDive(st, dive, stores),
      app |-> app2,
      cur |-> cur1,
      reqs |-> IF app2 # app THEN Append(reqs1, AppPending(app2)) ELSE reqs1]

\* the continuation of fetch(`/api/applications/${id}`) for request i:
\* .then(data => setCurrentApplication(data)), or the .catch that only logs;
\* the state update of an unmounted component is dropped
SettleAppFetch(i, ok) ==
  /\ i \in DOMAIN appRequests
  /\ appRequests[i].status = "pending"
  /\ appRequests' = [appRequests EXCEPT ![i].status = IF ok THEN "ok" ELSE "failed"]
  /\ currentApplication' = IF ok /\ ~unmounted THEN appRequests[i].id
                           ELSE currentApplication
  /\ UNCHANGED <<step, selectedDiveJobId, selectedAppId>>
  /\ UNCHANGED <<listVars, dragVars, storeVars, wsVars>>

(***************************************************************************)
(* App: the four stores and their refreshes                                *)
(***************************************************************************)
Stores == {"jobs", "selections", "deepDives", "applications"}

\* the lists a fetch can carry
StoreLists == {Window(1, k) : k \in 0..MaxStoreLen}

\* what comes back for a fetch: a body with the list field, a JSON body
\* without it, the JSON body null, a body that is no JSON, or no response
Bodies ==
  {[kind |-> "list", data |-> l] : l \in StoreLists}
    \cup {[kind |-> k, data |-> <<>>] : k \in {"nofield", "null", "unparseable", "neterr"}}

\* await fetch(url) rejects, await res.json() rejects, or data.<field>
\* throws on a null body: all inside the try block
Throws(body) == body.kind \in {"neterr", "unparseable", "null"}

\* data.<field> || []
FieldOrEmpty(body) == IF body.kind = "list" THEN body.data ELSE <<>>

\* a catch block that resets the list
StoreAfterCatchBlank(held) == <<>>

\* the catch block: console.error only, the state setter is not called
StoreAfterCatch(held) == held

\* the store's state once the fetch has settled
StoreAfterFetch(held, body) ==
  IF Throws(body) THEN StoreAfterCatch(held) ELSE FieldOrEmpty(body)

\* whether the exception leaves the refresh: the try block spans the whole
\* body of each fetch function
EscapesRefresh(body) == FALSE

\* setDeepDivesLoaded(true), on success and in the catch block
LoadedAfterFetch(s, loaded) == IF s = "deepDives" THEN TRUE ELSE loaded

Pending == [status |-> "pending", result |-> <<>>]

\* showArchivedDives ? '/api/deep-dives?include_archived=true' : '/api/deep-dives'
\* for the deep-dive fetch among the fetches of S
UrlsAfterFetch(S, urls, show) ==
  IF "deepDives" \in S THEN Append(urls, show) ELSE urls

Refetches ==
  LET RECURSIVE Sum(_)
      Sum(S) == IF S = {} THEN 0
                ELSE LET s == CHOOSE x \in S : TRUE
                     IN (Len(requests[s]) - 1) + Sum(S \ {s})
  IN Sum(Stores)

\* fetchJobs() / fetchSelections() / fetchDeepDives() / fetchApplications()
\* up to the await: the request is on its way
IssueFetch(s) ==
  /\ Refetches < MaxRefetches
  /\ requests' = [requests EXCEPT ![s] = Append(@, Pending)]
  /\ includeArchived' = UrlsAfterFetch({s}, includeArchived, showArchivedDives)
  /\ UNCHANGED <<store, deepDivesLoaded, escaped, showArchivedDives, saved>>
  /\ UNCHANGED <<listVars, dragVars, navVars, wsVars>>

\* the continuation after the awaits of request i of store s, with the
\* render and the effects the new list causes; state updates of an unmounted
\* component are dropped
SettleFetch(s, i, body) ==
  /\ i \in DOMAIN requests[s]
  /\ requests[s][i].status = "pending"
  /\ store' = IF unmounted THEN store
              ELSE [store EXCEPT ![s] = StoreAfterFetch(@, body)]
  /\ deepDivesLoaded' = IF unmounted THEN deepDivesLoaded
                        ELSE LoadedAfterFetch(s, deepDivesLoaded)
  /\ LET nav == AfterEffects(selectedAppId, step, selectedDiveJobId, selectedAppId,
                             currentApplication, appRequests, store')
     IN /\ step' = nav.step
        /\ selectedDiveJobId' = nav.dive
        /\ selectedAppId' = nav.app
        /\ currentApplication' = nav.cur
        /\ appRequests' = nav.reqs
        /\ onMessageRef' = nav.app
  /\ requests' = [requests EXCEPT ![s][i] =
                    IF Throws(body) THEN [status |-> "failed", result |-> <<>>]
                    ELSE [status |-> "ok", result |-> FieldOrEmpty(body)]]
  /\ escaped' = (escaped \/ EscapesRefresh(body))
  /\ UNCHANGED <<showArchivedDives, includeArchived, saved>>
  /\ UNCHANGED <<sockets, reconnectTimers, unmounted, attempts, inbound, delivered>>
  /\ UNCHANGED <<listVars, dragVars>>

\* toggleSelection(jobId) of the job list: the new list goes to
\* saveSelections, which sets it at once and posts it; neither outcome of
\* the POST touches the state (the catch block only logs)
ToggleSelection(jobId) ==
  /\ LET selectedIds == store["selections"]
         newIds == IF jobId \in Range(selectedIds)
                   THEN SelectSeq(selectedIds, LAMBDA id : id # jobId)
                   ELSE Append(selectedIds, jobId)
     IN /\ store' = [store EXCEPT !["selections"] = newIds]
        /\ saved' = <<[ids |-> newIds, issued |-> Len(requests["selections"])]>>
  /\ UNCHANGED <<deepDivesLoaded, requests, escaped, showArchivedDives, includeArchived>>
  /\ UNCHANGED <<listVars, dragVars, navVars, wsVars>>

\* onToggleArchived of the deep-dive list: setShowArchivedDives(!show), with
\* the render it causes: fetchDeepDives is a new function, so the mount
\* effect runs again and calls the four fetch functions, and the
\* auto-select effect sees the new filteredDeepDives
ToggleArchivedDives ==
  /\ Len(requests["deepDives"]) <= MaxToggles
  /\ showArchivedDives' = ~showArchivedDives
  /\ requests' = [s \in Stores |-> Append(requests[s], Pending)]
  /\ includeArchived' = UrlsAfterFetch(Stores, includeArchived, showArchivedDives')
  /\ selectedDiveJobId' =
       AutoDiveIn(step, selectedDiveJobId,
                  FilteredDeepDives(store["deepDives"], showArchivedDives'))
  /\ UNCHANGED <<store, deepDivesLoaded, escaped, saved>>
  /\ UNCHANGED <<step, selectedAppId, currentApplication, appRequests>>
  /\ UNCHANGED <<listVars, dragVars, wsVars>>

\* onStepChange of the StepNav: setStep(n), with the effects of the render
SetStep(n) ==
  /\ LET nav == AfterEffects(selectedAppId, n, selectedDiveJobId, selectedAppId,
                             currentApplication, appRequests, store)
     IN /\ step' = nav.step
        /\ selectedDiveJobId' = nav.dive
        /\ selectedAppId' = nav.app
        /\ currentApplication' = nav.cur
        /\ appRequests' = nav.reqs
        /\ onMessageRef' = nav.app
  /\ UNCHANGED <<sockets, reconnectTimers, unmounted, attempts, inbound, delivered>>
  /\ UNCHANGED <<listVars, dragVars, storeVars>>

\* App after its mount effect: every store empty, one fetch per store issued
StoreInit ==
  /\ store = [s \in Stores |-> <<>>]
  /\ deepDivesLoaded = FALSE
  /\ requests = [s \in Stores |-> <<Pending>>]
  /\ escaped = FALSE
  /\ showArchivedDives = FALSE
  /\ includeArchived = <<FALSE>>
  /\ saved = <<>>

StoreIdle ==
  /\ store = [s \in Stores |-> <<>>]
  /\ deepDivesLoaded = FALSE
  /\ requests = [s \in Stores |-> <<>>]
  /\ escaped = FALSE
  /\ showArchivedDives = FALSE
  /\ includeArchived = <<>>
  /\ saved = <<>>

(***************************************************************************)
(* App: initial navigation state                                           *)
(***************************************************************************)
NavInit ==
  /\ step = 1
  /\ selectedDiveJobId = NoId
  /\ selectedAppId = NoId
  /\ currentApplication = NoId
  /\ appRequests = <<>>

(***************************************************************************)
(* App: handleWsMessage                                                    *)
(***************************************************************************)
\* const VIEW_MAP = { select: 1, deep_dive: 2, ... }
ViewMap ==
  [v \in {"select", "deep_dive", "deep_dives", "application", "applications"} |->
     IF v = "select" THEN 1
     ELSE IF v \in {"deep_dive", "deep_dives"} THEN 2
     ELSE 3]

\* names an object literal inherits from Object.prototype: VIEW_MAP[name] is
\* a function for them (constructor is Object)
InheritedViews == {"constructor"}

\* view names an event can carry: the mapped ones, one the map does not
\* have, an inherited property name, and "" for a message without data.view
Views == DOMAIN ViewMap \cup InheritedViews \cup {"settings", ""}

\* the ids an event can carry: a record of a store, or NoId for none
EventIds == {NoId} \cup 1..MaxStoreLen

Events ==
  {"jobs_updated", "deep_dive_updated", "deep_dives_changed", "application_updated",
   "applications_changed", "view_changed", "other"}

Msg(e, i, v) == [event |-> e, id |-> i, view |-> v]

\* JSON.parse gave null: msg.event throws
NullMsg == Msg("null", NoId, "")

\* the parsed messages of the model
Messages ==
  {Msg(e, NoId, "") : e \in {"jobs_updated", "deep_dives_changed",
                              "applications_changed", "other"}}
    \cup {Msg(e, i, "") : e \in {"deep_dive_updated", "application_updated"},
                          i \in EventIds}
    \cup {Msg("view_changed", NoId, v) : v \in Views}
    \cup {NullMsg}

\* a jobs_updated that refreshes the jobs store alone
FetchedJobsOnly(data) ==
  IF data.event = "jobs_updated" THEN {"jobs"}
  ELSE IF data.event \in {"deep_dive_updated", "deep_dives_changed"} THEN {"deepDives"}
  ELSE IF data.event \in {"application_updated", "applications_changed"}
  THEN {"applications"}
  ELSE {}

\* the stores whose fetch function the handler calls
Fetched(data) ==
  IF data.event = "jobs_updated" THEN {"jobs", "selections", "deepDives"}
  ELSE IF data.event \in {"deep_dive_updated", "deep_dives_changed"} THEN {"deepDives"}
  ELSE IF data.event \in {"application_updated", "applications_changed"}
  THEN {"applications"}
  ELSE {}

\* const newStep = VIEW_MAP[msg.data?.view]; if (newStep) setStep(newStep)
\* (setStep called with a function applies it to the current step)
StepAfterView(view, st) ==
  IF view \in DOMAIN ViewMap THEN ViewMap[view]
  ELSE IF view \in InheritedViews THEN Boxed(st)
  ELSE st

\* the step the handler sets
RoutedStep(data, st) ==
  IF data.event = "deep_dive_updated" /\ data.id # NoId THEN 2
  ELSE IF data.event = "application_updated" /\ data.id # NoId THEN 3
  ELSE IF data.event = "view_changed" THEN StepAfterView(data.view, st)
  ELSE st

\* a deep_dive_updated that navigates without selecting the record
RoutedDiveUnselected(data, dive) == dive

\* if (msg.data?.job_id) setSelectedDiveJobId(msg.data.job_id)
RoutedDive(data, dive) ==
  IF data.event = "deep_dive_updated" /\ data.id # NoId THEN data.id ELSE dive

\* setSelectedAppId(msg.data.application_id) / setSelectedAppId(null)
RoutedApp(data, app) ==
  IF data.event = "application_updated" /\ data.id # NoId THEN data.id
  ELSE IF data.event = "applications_changed" THEN NoId
  ELSE app

\* whether the handler calls fetchCurrentApplication(): the one of its own
\* closure, which holds the selectedAppId of the render it was created in
CallsFetchCurrent(data) == data.event = "application_updated" /\ data.id # NoId

\* setCurrentApplication(null), by the handler or by fetchCurrentApplication
RoutedCurrent(data, closureApp, cur) ==
  IF data.event = "applications_changed" THEN NoId
  ELSE IF CallsFetchCurrent(data) /\ closureApp = NoId THEN NoId
  ELSE cur

RoutedAppRequests(data, closureApp, reqs) ==
  IF CallsFetchCurrent(data) /\ closureApp # NoId
  THEN Append(reqs, AppPending(closureApp))
  ELSE reqs

\* handleWsMessage(msg), with the render and the effects its state updates
\* cause; state updates of an unmounted component are dropped
HandleWsMessage(data) ==
  /\ requests' = [s \in Stores |->
                    IF data.event # "null" /\ s \in Fetched(data)
                    THEN Append(requests[s], Pending) ELSE requests[s]]
  /\ LET closureApp == onMessageRef
         nav == IF data.event = "null" \/ unmounted
                THEN [step |-> step, dive |-> selectedDiveJobId, app |-> selectedAppId,
                      cur |-> currentApplication,
                      reqs |-> IF data.event = "null" THEN appRequests
                               ELSE RoutedAppRequests(data, closureApp, appRequests)]
                ELSE AfterEffects(selectedAppId,
                                  RoutedStep(data, step),
                                  RoutedDive(data, selectedDiveJobId),
                                  RoutedApp(data, selectedAppId),
                                  RoutedCurrent(data, closureApp, currentApplication),
                                  RoutedAppRequests(data, closureApp, appRequests),
                                  store)
     IN /\ step' = nav.step
        /\ selectedDiveJobId' = nav.dive
        /\ selectedAppId' = nav.app
        /\ currentApplication' = nav.cur
        /\ appRequests' = nav.reqs
        /\ onMessageRef' = nav.app
  /\ includeArchived' = IF data.event = "null" THEN includeArchived
                        ELSE UrlsAfterFetch(Fetched(data), includeArchived,
                                            showArchivedDives)
  /\ UNCHANGED <<store, deepDivesLoaded, escaped, showArchivedDives, saved>>

(***************************************************************************)
(* useWebSocket                                                            *)
(***************************************************************************)
\* what a message event carries: text JSON.parse rejects, or a parsed value
RawMessages == {[kind |-> "bad", data |-> NullMsg]} \cup
               {[kind |-> "json", data |-> m] : m \in Messages}

\* JSON.parse(event.data) throws
ParseFails(raw) == raw.kind = "bad"

\* a handler that also hands unparseable text on
DeliveredUnparsed(log, raw, cb) == Append(log, [data |-> raw.data, cb |-> cb])

\* onMessageRef.current(data), reached when JSON.parse returned
Delivered(log, raw, cb) ==
  IF ParseFails(raw) THEN log ELSE Append(log, [data |-> raw.data, cb |-> cb])

\* sockets that can still fire an event
Live(socks) == SelectSeq(socks, LAMBDA st : st # "closed")

\* an onclose that does not reconnect
TimersAfterCloseNone(timers) == timers

\* reconnectTimeoutRef.current = setTimeout(connect, 3000)
TimersAfterClose(timers) == Append(timers, Ticks(ReconnectMs))

\* ws.close(): a connecting or open socket starts closing
Closed(st) == IF st \in {"connecting", "open"} THEN "closing" ELSE st

\* wsRef.current?.close(): wsRef.current is the socket constructed last
CloseCurrent(socks) ==
  IF socks = <<>> THEN socks ELSE [socks EXCEPT ![Len(socks)] = Closed(@)]

\* connect(): new WebSocket(wsUrl) returns a socket, or throws and the catch
\* block schedules the next attempt
Connect(socks, timers, throws) ==
  [sockets |-> IF throws THEN socks ELSE Append(Live(socks), "connecting"),
   timers |-> IF throws THEN TimersAfterClose(timers) ELSE timers]

\* the listeners of the hook leave App and the job list alone
WsFrame == UNCHANGED <<listVars, dragVars, storeVars, navVars>>

\* the timer callback: connect()
ReconnectTimeout(throws) ==
  /\ \E i \in DOMAIN reconnectTimers : reconnectTimers[i] = 0
  /\ LET i == CHOOSE k \in DOMAIN reconnectTimers : reconnectTimers[k] = 0
         rest == SubSeq(reconnectTimers, 1, i - 1)
                   \o SubSeq(reconnectTimers, i + 1, Len(reconnectTimers))
         c == Connect(sockets, rest, throws)
     IN /\ sockets' = c.sockets
        /\ reconnectTimers' = c.timers
  /\ attempts' = (attempts + 1) % MaxConnects
  /\ UNCHANGED <<unmounted, onMessageRef, inbound, delivered>>
  /\ WsFrame

\* an onopen that refreshes every store once the connection is up
WsOpenRefetches(i) ==
  /\ i \in DOMAIN sockets
  /\ sockets[i] = "connecting"
  /\ sockets' = [sockets EXCEPT ![i] = "open"]
  /\ requests' = [s \in Stores |-> Append(requests[s], Pending)]
  /\ includeArchived' = UrlsAfterFetch(Stores, includeArchived, showArchivedDives)
  /\ UNCHANGED <<store, deepDivesLoaded, escaped, showArchivedDives, saved>>
  /\ UNCHANGED <<reconnectTimers, unmounted, onMessageRef, attempts, inbound, delivered>>
  /\ UNCHANGED <<listVars, dragVars, navVars>>

\* onopen
WsOpen(i) ==
  /\ i \in DOMAIN sockets
  /\ sockets[i] = "connecting"
  /\ sockets' = [sockets EXCEPT ![i] = "open"]
  /\ UNCHANGED <<reconnectTimers, unmounted, onMessageRef, attempts, inbound, delivered>>
  /\ WsFrame

\* an onerror that schedules the reconnect itself, before the close event
WsErrorReconnects(i) ==
  /\ i \in DOMAIN sockets
  /\ sockets[i] \in {"connecting", "open"}
  /\ sockets' = CloseCurrent([sockets EXCEPT ![i] = "closing"])
  /\ reconnectTimers' = TimersAfterClose(reconnectTimers)
  /\ UNCHANGED <<unmounted, onMessageRef, attempts, inbound, delivered>>
  /\ WsFrame

\* onerror: the connection of socket i has failed (its close event follows),
\* and the handler closes wsRef.current
WsError(i) ==
  /\ i \in DOMAIN sockets
  /\ sockets[i] \in {"connecting", "open"}
  /\ sockets' = CloseCurrent([sockets EXCEPT ![i] = "closing"])
  /\ UNCHANGED <<reconnectTimers, unmounted, onMessageRef, attempts, inbound, delivered>>
  /\ WsFrame

\* onclose: the server or the network ended an open connection, or a close
\* that was under way has finished
WsClose(i) ==
  /\ i \in DOMAIN sockets
  /\ sockets[i] \in {"open", "closing"}
  /\ sockets' = [sockets EXCEPT ![i] = "closed"]
  /\ reconnectTimers' = TimersAfterClose(reconnectTimers)
  /\ UNCHANGED <<unmounted, onMessageRef, attempts, inbound, delivered>>
  /\ WsFrame

\* onmessage of socket i
WsMessage(i, raw) ==
  /\ i \in DOMAIN sockets
  /\ sockets[i] = "open"
  /\ inbound' = Append(inbound, raw)
  /\ delivered' = Delivered(delivered, raw, onMessageRef)
  /\ IF ParseFails(raw)
     THEN UNCHANGED <<storeVars, navVars, onMessageRef>>
     ELSE HandleWsMessage(raw.data)
  /\ UNCHANGED <<sockets, reconnectTimers, unmounted, attempts>>
  /\ UNCHANGED <<listVars, dragVars>>

\* the cleanup of the hook's effect: clearTimeout of the timer set last (the
\* last to fire, so pending whenever any is) and wsRef.current.close()
Unmount ==
  /\ ~unmounted
  /\ unmounted' = TRUE
  /\ reconnectTimers' = SubSeq(reconnectTimers, 1, Len(reconnectTimers) - 1)
  /\ sockets' = CloseCurrent(sockets)
  /\ UNCHANGED <<onMessageRef, attempts, inbound, delivered>>
  /\ WsFrame

\* the hook after its mount effect, connect() having returned a socket
WsInit ==
  /\ sockets = <<"connecting">>
  /\ reconnectTimers = <<>>
  /\ unmounted = FALSE
  /\ onMessageRef = NoId
  /\ attempts = 1 % MaxConnects
  /\ inbound = <<>>
  /\ delivered = <<>>

\* the hook after its mount effect, whether or not the constructor threw
WsMountInit ==
  /\ \E throws \in BOOLEAN :
       LET c == Connect(<<>>, <<>>, throws)
       IN sockets = c.sockets /\ reconnectTimers = c.timers
  /\ unmounted = FALSE
  /\ onMessageRef = NoId
  /\ attempts = 1 % MaxConnects
  /\ inbound = <<>>
  /\ delivered = <<>>

NoDiff == [branch |-> "none", removed |-> <<>>, added |-> <<>>,
           moved |-> <<>>, primaryMovedId |-> NoId]

\* JobList as App mounts it: jobs = [] (App's useState([])), every set empty
ListInit ==
  /\ jobs = <<>>
  /\ prevJobsRef = <<>>
  /\ exitingIds = <<>>
  /\ exitingJobsDataRef = <<>>
  /\ enteringIds = {}
  /\ settledIds = {}
  /\ exitTimer = <<>>
  /\ enterTimers = {}
  /\ settleTimers = {}
  /\ lastDiff = NoDiff
  /\ refreshes = 0

DragInit ==
  /\ sortKey = "null"
  /\ sortAsc = TRUE
  /\ draggedId = NoId
  /\ dragOverId = NoId
  /\ dragDirection = "null"
  /\ reorderOut = <<>>
  /\ gesture = "idle"

Init == ListInit /\ DragInit /\ StoreIdle /\ NavInit /\ WsInit

ListNext ==
  \/ \E J \in WindowSnapshots : refreshes < MaxRefreshes /\ SetJobs(J)
  \/ Tick
  \/ ExitTimeout
  \/ EnterTimeout
  \/ SettleTimeout

SpecList == Init /\ [][ListNext]_vars

\* the snapshots the job list is fed in the runs with drags: the full list,
\* the list without its first row and the list without its last row
DragSnapshots ==
  {Snapshot(Window(1, MaxId)), Snapshot(Window(2, MaxId)),
   Snapshot(Window(1, MaxId - 1))}

\* the job list with its sort and drag handlers, within one timer period
\* (no timeout fires)
DragNext ==
  \/ \E J \in DragSnapshots : refreshes < MaxRefreshes /\ SetJobs(J)
  \/ \E key \in SortKeys : HandleSort(key)
  \/ \E id \in Ids : HandleDragStart(id)
  \/ \E id \in Ids : HandleDragOver(id)
  \/ \E id \in Ids : HandleDrop(id)
  \/ HandleDragEnd
  \/ HandleTableDragLeave

SpecDrag == Init /\ [][DragNext]_vars

\* the stores: refreshes issued and settled in any order
StoreNext ==
  \/ \E s \in Stores : IssueFetch(s)
  \/ \E s \in Stores, i \in 1..(MaxRefetches + 1), body \in Bodies :
       SettleFetch(s, i, body)

\* App once its mount effect has issued the four initial fetches
AppInit == ListInit /\ DragInit /\ StoreInit /\ NavInit /\ WsInit

SpecStore == AppInit /\ [][StoreNext]_vars

\* the job list right after its first snapshot A: the state SetJobs(A)
\* leaves from ListInit (nothing animates on the initial load)
DiffInit ==
  /\ \E A \in Snapshots :
       /\ jobs = A
       /\ prevJobsRef = PrevAfterDiff("none", <<>>, A)
       /\ lastDiff = [NoDiff EXCEPT !.added = Added(<<>>, A)]
  /\ exitingIds = <<>>
  /\ exitingJobsDataRef = <<>>
  /\ enteringIds = {}
  /\ settledIds = {}
  /\ exitTimer = <<>>
  /\ enterTimers = {}
  /\ settleTimers = {}
  /\ refreshes = 1
  /\ DragInit
  /\ StoreIdle
  /\ NavInit
  /\ WsInit

\* one more snapshot, any sequence of distinct ids
DiffNext == \E B \in Snapshots : refreshes = 1 /\ SetJobs(B)

SpecDiff == DiffInit /\ [][DiffNext]_vars

\* the messages of the runs that follow the channel through its life: text
\* that does not parse, an event no branch handles, and a view change
WsMessages ==
  {[kind |-> "bad", data |-> NullMsg],
   [kind |-> "json", data |-> Msg("other", NoId, "")],
   [kind |-> "json", data |-> Msg("view_changed", NoId, "deep_dive")]}

\* the push channel: timers, socket events, messages and the owner's cleanup
WsNext ==
  \/ Tick
  \/ \E throws \in BOOLEAN : ReconnectTimeout(throws)
  \/ \E i \in DOMAIN sockets : WsOpen(i)
  \/ \E i \in DOMAIN sockets : WsError(i)
  \/ \E i \in DOMAIN sockets : WsClose(i)
  \/ \E i \in DOMAIN sockets, raw \in WsMessages :
       Len(inbound) < MaxMessages /\ WsMessage(i, raw)
  \/ Unmount

WsSpecInit == ListInit /\ DragInit /\ StoreIdle /\ NavInit /\ WsMountInit

SpecWs == WsSpecInit /\ [][WsNext]_vars

\* time passes, a due timer callback runs, and a socket that is closing gets
\* its close event
SpecWsLive ==
  /\ WsSpecInit
  /\ [][WsNext]_vars
  /\ WF_vars(Tick)
  /\ WF_vars(\E throws \in BOOLEAN : ReconnectTimeout(throws))
  /\ WF_vars(\E i \in DOMAIN sockets : sockets[i] = "closing" /\ WsClose(i))

\* App with its channel open and its initial fetches settled: the research
\* and the applications stores hold any list, nothing is selected
RouteInit ==
  /\ ListInit
  /\ DragInit
  /\ NavInit
  /\ \E dives \in StoreLists, apps \in StoreLists :
       /\ store = [s \in Stores |-> IF s = "deepDives" THEN dives
                                    ELSE IF s = "applications" THEN apps
                                    ELSE <<>>]
       /\ requests = [s \in Stores |-> <<[status |-> "ok", result |-> store[s]]>>]
  /\ deepDivesLoaded = TRUE
  /\ escaped = FALSE
  /\ showArchivedDives = FALSE
  /\ includeArchived = <<FALSE>>
  /\ saved = <<>>
  /\ sockets = <<"open">>
  /\ reconnectTimers = <<>>
  /\ unmounted = FALSE
  /\ onMessageRef = NoId
  /\ attempts = 1 % MaxConnects
  /\ inbound = <<>>
  /\ delivered = <<>>

\* any message, parsed or not, on the open socket
RouteNext ==
  \E raw \in RawMessages : Len(inbound) < MaxMessages /\ WsMessage(1, raw)

SpecRoute == RouteInit /\ [][RouteNext]_vars

\* the snapshots of the runs that follow the hover of a drag: the full list
\* in the server's order and in the reversed order
OverSnapshots == {Snapshot(Window(1, MaxId)), Snapshot(Reverse(Window(1, MaxId)))}

\* one drag gesture at a time (dragstart ... dragend), with its hover events,
\* while snapshots arrive
OverNext ==
  \/ \E J \in OverSnapshots : refreshes < MaxRefreshes /\ SetJobs(J)
  \/ \E id \in Ids : draggedId = NoId /\ HandleDragStart(id)
  \/ \E id \in Ids : draggedId # NoId /\ HandleDragOver(id)
  \/ HandleDragEnd
  \/ HandleTableDragLeave

SpecOver == Init /\ [][OverNext]_vars

\* the job list showing the full list in the server's order: the state
\* SetJobs leaves from ListInit (nothing animates on the initial load)
SettleInit ==
  /\ jobs = Snapshot(Window(1, MaxId))
  /\ prevJobsRef = PrevAfterDiff("none", <<>>, jobs)
  /\ lastDiff = [NoDiff EXCEPT !.added = Added(<<>>, jobs)]
  /\ exitingIds = <<>>
  /\ exitingJobsDataRef = <<>>
  /\ enteringIds = {}
  /\ settledIds = {}
  /\ exitTimer = <<>>
  /\ enterTimers = {}
  /\ settleTimers = {}
  /\ refreshes = 1
  /\ DragInit
  /\ StoreIdle
  /\ NavInit
  /\ WsInit

\* sorts and drops on a list that stays as it is, with the clock and the
\* settle timeout
SettleNext ==
  \/ \E key \in SortKeys : HandleSort(key)
  \/ \E id \in Ids : draggedId = NoId /\ HandleDragStart(id)
  \/ \E id \in Ids : HandleDrop(id)
  \/ Tick
  \/ SettleTimeout

SpecSettle == SettleInit /\ [][SettleNext]_vars

\* application_updated events for the records of the applications store,
\* with the fetches they cause settling in any order
DetailNext ==
  \/ \E id \in 1..MaxStoreLen :
       /\ Len(inbound) < MaxMessages
       /\ WsMessage(1, [kind |-> "json", data |-> Msg("application_updated", id, "")])
  \/ \E i \in 1..(2 * MaxMessages), ok \in BOOLEAN : SettleAppFetch(i, ok)
  \/ \E i \in 1..(MaxMessages + 1), body \in Bodies : SettleFetch("applications", i, body)

SpecDetail == RouteInit /\ [][DetailNext]_vars

\* the selections store: the user's toggles, refreshes, and their responses
\* in any order
SelectNext ==
  \/ \E jobId \in 1..MaxStoreLen : ToggleSelection(jobId)
  \/ IssueFetch("selections")
  \/ \E i \in 1..(MaxRefetches + 1), body \in Bodies : SettleFetch("selections", i, body)

SpecSelect == AppInit /\ [][SelectNext]_vars

\* a deep-dive list whose last record is an archived one
LastArchived(l) == [i \in DOMAIN l |-> IF i = Len(l) THEN -l[i] ELSE l[i]]

\* what the server answers to a deep-dive fetch: archived records only when
\* the url asked for them
DiveBodies(withArchived) ==
  IF withArchived
  THEN Bodies \cup {[kind |-> "list", data |-> LastArchived(l)] : l \in StoreLists \ {<<>>}}
  ELSE Bodies

\* the deep-dive view: the archive toggle, the step navigation, and the
\* responses of the deep-dive fetches in any order
ArchiveNext ==
  \/ ToggleArchivedDives
  \/ \E n \in Steps : SetStep(n)
  \/ \E i \in 1..(MaxToggles + 1) :
       /\ i \in DOMAIN includeArchived
       /\ \E body \in DiveBodies(includeArchived[i]) : SettleFetch("deepDives", i, body)

SpecArchive == AppInit /\ [][ArchiveNext]_vars

\* the job list with its column sorts while snapshots arrive, within one
\* timer period (no timeout fires)
SortNext ==
  \/ \E J \in WindowSnapshots : refreshes < MaxRefreshes /\ SetJobs(J)
  \/ \E key \in SortKeys : HandleSort(key)

SpecSort == Init /\ [][SortNext]_vars

\* a step that renders a new snapshot
IsRefresh == refreshes' = refreshes + 1

(***************************************************************************)
(* Claims on the reconciliation                                            *)
(***************************************************************************)

\* C2: after every run of the diff effect, whichever arm it takes, the
\* stored previous Snapshot (prevJobsRef.current) is the Snapshot just
\* rendered (jobs).
C2_PrevIsRendered == prevJobsRef = jobs

\* C3: the displayed row sequence (jobs followed by the frozen exiting rows)
\* never holds an id twice.
C3_NoDuplicateRows == NoDuplicates(IdSeq(AllJobs))

\* C5: an id marked exiting has its frozen copy, is displayed, and is
\* covered by a pending exit timeout, so that it is purged once the timer
\* elapses, whatever snapshots arrived meanwhile.
C5_ExitingIsPurged ==
  \A id \in Range(exitingIds) :
    /\ id \in DOMAIN exitingJobsDataRef
    /\ id \in IdSet(AllJobs)
    /\ exitTimer # <<>>
    /\ id \in Range(exitTimer[1].removed)

\* C6: a Snapshot whose id sequence equals that of the Snapshot rendered
\* just before it makes no id entering, exiting or settled (moved).
C6_Idempotent ==
  [][(IsRefresh /\ IdSeq(jobs') = IdSeq(jobs))
       => /\ enteringIds' \subseteq enteringIds
          /\ Range(exitingIds') \subseteq Range(exitingIds)
          /\ settledIds' \subseteq settledIds]_vars

\* C7: when more than 3 ids of the diff's previous Snapshot A
\* (prevJobsRef.current) are absent from the new Snapshot B, the exiting set
\* is empty right after the diff and every frozen copy is dropped; when
\* exactly 3 are absent, those 3 are exiting, each with its frozen copy.
C7_BulkRemovalSuppressed ==
  [][IsRefresh =>
       LET gone == IdSet(prevJobsRef) \ IdSet(jobs')
       IN /\ Cardinality(gone) > BulkThreshold
               => exitingIds' = <<>> /\ DOMAIN exitingJobsDataRef' = {}
          /\ Cardinality(gone) = BulkThreshold
               => /\ gone \subseteq Range(exitingIds')
                  /\ gone \subseteq DOMAIN exitingJobsDataRef']_vars

\* a bulk removal happened while an earlier exit was still on screen
C7_Witness ==
  /\ lastDiff.branch = "bulk"
  /\ Len(lastDiff.removed) > BulkThreshold
  /\ exitingIds = <<>>
  /\ refreshes > 2

\* the id of B with the largest index displacement from A, the first in B's
\* order among equals; NoId when no id changed index
LargestDisplacement(A, B) ==
  LET disp(id) == Abs(IndexOf(B, id) - IndexOf(A, id))
      best == {id \in Range(B) : \A o \in Range(B) : disp(o) <= disp(id)}
  IN IF \A id \in Range(B) : disp(id) = 0 THEN NoId
     ELSE CHOOSE id \in best : \A o \in best : IndexOf(B, id) <= IndexOf(B, o)

\* C8: for a transition from a non-empty previous Snapshot A to B with the
\* same id set, moved is exactly the set of ids whose index in B differs from
\* their index in A (and these become the settled rows), and primaryMovedId
\* is the id with the largest |index displacement|, the first such id in B's
\* order on a tie, null when nothing moved.
C8_MovedAndPrimary ==
  [][(IsRefresh /\ prevJobsRef # <<>> /\ IdSet(prevJobsRef) = IdSet(jobs'))
       => LET A == IdSeq(prevJobsRef)
              B == IdSeq(jobs')
              changed == {id \in Range(B) : IndexOf(B, id) # IndexOf(A, id)}
          IN /\ Range(lastDiff'.moved) = changed
             /\ changed # {} => settledIds' = changed
             /\ lastDiff'.primaryMovedId = LargestDisplacement(A, B)]_vars

\* a reorder of at least three rows whose primary moved id is not the first
\* moved row
C8_Witness ==
  /\ Len(lastDiff.moved) > 2
  /\ lastDiff.primaryMovedId # NoId
  /\ lastDiff.primaryMovedId # lastDiff.moved[1]
  /\ settledIds = Range(lastDiff.moved)

\* C9: no id is marked both entering and exiting.
C9_EnteringExitingDisjoint == enteringIds \cap Range(exitingIds) = {}

(***************************************************************************)
(* Claims on drag and drop                                                 *)
(***************************************************************************)

\* C10: a drop on targetId during a drag of draggedId, both in the displayed
\* non-exiting order and different, issues exactly one reorder command; its
\* id list is a permutation of the displayed non-exiting ids, holds
\* draggedId at the index targetId had before the removal, and keeps every
\* other id in its relative order.
C10_DropReorder ==
  [][(draggedId # NoId /\ draggedId' = NoId) =>
       LET D == DisplayedIds
           others == Range(D) \ {draggedId}
       IN \A t \in Range(D) :
            (draggedId # t /\ draggedId \in Range(D) /\ HandleDrop(t))
            => /\ Len(reorderOut') = 1
               /\ LET E == reorderOut'[1]
                  IN /\ Len(E) = Len(D)
                     /\ Range(E) = Range(D)
                     /\ E[IndexOf(D, t) + 1] = draggedId
                     /\ \A a, b \in others :
                          IndexOf(D, a) < IndexOf(D, b)
                            => IndexOf(E, a) < IndexOf(E, b)]_vars

\* [a,b,c,d], drag a onto c: the command carries [b,c,a,d]
C10_Witness ==
  /\ IdSeq(jobs) = <<1, 2, 3, 4>>
  /\ exitingIds = <<>>
  /\ reorderOut = << <<2, 3, 1, 4>> >>
  /\ draggedId = NoId


\* the drag controller is Idle: nothing dragged, no hover, no direction
DragIdle == draggedId = NoId /\ dragOverId = NoId /\ dragDirection = "null"

\* C11: handleDragEnd from any state, and handleDrop on any target whether
\* or not it reorders, leaves the controller Idle (draggedId, dragOverId and
\* dragDirection cleared); a drag in progress can always be ended by
\* handleDragEnd alone.
C11_DragAlwaysEnds ==
  [][/\ DragIdle' \/ ~(HandleDragEnd \/ \E t \in Ids : draggedId' = NoId /\ HandleDrop(t))
     /\ draggedId # NoId => ENABLED HandleDragEnd]_vars

\* a drag in progress was ended by handleDragEnd, without a drop, while a
\* sort was active
C11_Witness ==
  /\ gesture = "ended"
  /\ DragIdle
  /\ reorderOut = <<>>
  /\ sortKey # "null"

\* the conditions under which the claim makes a drop on t a no-op
DropIsNoOp(D, t) ==
  \/ draggedId = NoId
  \/ t = draggedId
  \/ draggedId \notin Range(D)
  \/ t \notin Range(D)

\* C12: a drop on the dragged row itself, a drop with no drag active, and a
\* drop while draggedId or the target is not in the displayed non-exiting
\* order issue no reorder command, leave the sort state and the settled set
\* unchanged, and do not throw (the handler completes and the controller is
\* Idle).
C12_InvalidDropIsNoOp ==
  [][draggedId' = NoId =>
       \A t \in Ids :
         (DropIsNoOp(DisplayedIds, t) /\ HandleDrop(t))
           => /\ reorderOut' = <<>>
              /\ UNCHANGED <<sortKey, sortAsc, settledIds, settleTimers>>
              /\ DragIdle']_vars

\* a drop after a refresh took the dragged row out of the displayed order,
\* with a sort active
C12_Witness ==
  /\ gesture = "gone"
  /\ DragIdle
  /\ reorderOut = <<>>
  /\ sortKey # "null"

\* C13: a Snapshot that no longer holds the id being dragged resets the
\* drag: once it is rendered draggedId is cleared.
C13_RemovedDragIsReset ==
  [][(IsRefresh /\ draggedId # NoId /\ draggedId \notin IdSet(jobs'))
       => draggedId' = NoId]_vars

\* C14: activating column K gives (K, ascending) when the sort is not on K,
\* (K, descending) when it is (K, ascending), and no sort when it is
\* (K, descending); and in a state without sort, the one the third
\* activation returns to (every such state that shows rows is left again by
\* an activation), the displayed order of the non-exiting rows is the
\* Snapshot's order.
C14_SortCycle ==
  [][\A K \in SortKeys :
       HandleSort(K) =>
         /\ sortKey # K => sortKey' = K /\ sortAsc'
         /\ (sortKey = K /\ sortAsc) => sortKey' = K /\ ~sortAsc'
         /\ (sortKey = K /\ ~sortAsc) => sortKey' = "null"
         /\ sortKey = "null" =>
              DisplayedIds = SelectSeq(IdSeq(jobs),
                                       LAMBDA id : id \notin Range(exitingIds))]_vars

\* a column activated twice: sorted descending, and the displayed order
\* differs from the Snapshot's
C14_Witness ==
  /\ sortKey = "title"
  /\ ~sortAsc
  /\ exitingIds # <<>>
  /\ DisplayedIds # SelectSeq(IdSeq(jobs), LAMBDA id : id \notin Range(exitingIds))

(***************************************************************************)
(* Claims on the stores                                                    *)
(***************************************************************************)
\* request i of store s settles successfully in this step
SettlesOk(s, i) ==
  requests[s][i].status = "pending" /\ requests'[s][i].status = "ok"

\* request i of store s fails in this step
SettlesFailed(s, i) ==
  requests[s][i].status = "pending" /\ requests'[s][i].status = "failed"

\* the latest-issued request of store s that has completed successfully
LatestOk(s) ==
  CHOOSE k \in DOMAIN requests[s] :
    /\ requests[s][k].status = "ok"
    /\ \A m \in DOMAIN requests[s] : requests[s][m].status = "ok" => m <= k

\* C1: when the response of an earlier-issued refresh arrives after the
\* response of a later-issued refresh of the same store, the store's Snapshot
\* afterwards is the later-issued request's result: the earlier response is
\* discarded.
C1_StaleResponseDiscarded ==
  [][\A s \in Stores : \A i \in DOMAIN requests[s] :
       (/\ SettlesOk(s, i)
        /\ \E k \in DOMAIN requests[s] : k > i /\ requests[s][k].status = "ok")
       => store'[s] = requests[s][LatestOk(s)].result]_vars

Arrives == Len(inbound') = Len(inbound) + 1

Arrived == inbound'[Len(inbound')]

\* C15: every message that parses invokes the current onMessage (the
\* handler of the latest render, which closes over selectedAppId) exactly
\* once, in arrival order; a message that does not parse invokes nothing,
\* changes no state, and leaves the connection open for later messages.
C15_OnePerParsedMessage ==
  [][Arrives =>
       /\ sockets' = sockets
       /\ reconnectTimers' = reconnectTimers
       /\ IF Arrived.kind = "json"
          THEN delivered' = Append(delivered, [data |-> Arrived.data,
                                               cb |-> selectedAppId])
          ELSE delivered' = delivered /\ UNCHANGED <<storeVars, navVars>>]_vars

\* text that does not parse arrived first, and the message after it was
\* handed to the handler, once
C15_Witness ==
  /\ Len(inbound) > 1
  /\ inbound[1].kind = "bad"
  /\ inbound[2].kind = "json"
  /\ Len(delivered) = Len(inbound) - 1
  /\ delivered[Len(delivered)].data = inbound[2].data
  /\ sockets = <<"open">>

\* no socket is connecting or open
Disconnected == \A i \in DOMAIN sockets : sockets[i] \notin {"connecting", "open"}

\* every socket has had its close event (or none was ever constructed)
AllClosed == \A i \in DOMAIN sockets : sockets[i] = "closed"

\* C16: while the owner has not closed the channel, once every connection
\* is gone (closed, failed, or never constructed because the constructor
\* threw) a reconnect timer of at most the fixed delay is pending, and after
\* every disconnect connect() is eventually called again, without limit.
C16_ReconnectsForever ==
  /\ [](~unmounted /\ AllClosed =>
          /\ reconnectTimers # <<>>
          /\ \A i \in DOMAIN reconnectTimers :
               reconnectTimers[i] <= Ticks(ReconnectMs))
  /\ \A n \in 0..(MaxConnects - 1) :
       [](Disconnected /\ ~unmounted /\ attempts = n
            => <>(attempts # n \/ unmounted))

\* a connection that carried a message is gone and a later call of connect()
\* has constructed the next one
C16_Witness ==
  /\ inbound # <<>>
  /\ sockets = <<"connecting">>
  /\ attempts # 1 % MaxConnects
  /\ ~unmounted

\* C17: once the owner has closed the channel (the cleanup has run), no
\* reconnect timer is pending and no connection is connecting or open.
C17_ClosedStaysClosed ==
  unmounted => reconnectTimers = <<>> /\ Disconnected

(***************************************************************************)
(* Claims on the routing of events                                         *)
(***************************************************************************)
\* the message of this step parsed and carries event e
Routes(e) == Arrives /\ Arrived.kind = "json" /\ Arrived.data.event = e

\* the step issues one fetch for each store of S and none for the others
Refreshes(S) ==
  \A s \in Stores :
    requests'[s] = IF s \in S THEN Append(requests[s], Pending) ELSE requests[s]

\* C18: routing jobs_updated issues a refresh of the jobs, the selections
\* and the deep-dive stores, and changes no navigation state.
C18_JobsUpdatedRefreshes ==
  [][Routes("jobs_updated") =>
       /\ Refreshes({"jobs", "selections", "deepDives"})
       /\ UNCHANGED navVars]_vars

\* jobs_updated was routed while the view was on a research record
C18_Witness ==
  /\ inbound # <<>>
  /\ inbound[Len(inbound)].data.event = "jobs_updated"
  /\ inbound[Len(inbound)].kind = "json"
  /\ Len(requests["selections"]) = 2
  /\ step = 2
  /\ selectedDiveJobId # NoId

\* C19: routing deep_dive_updated with job id J issues a refresh of the
\* deep-dive store and leaves the view on step 2 with J selected; without a
\* job id it issues the refresh and changes no navigation state.
C19_DeepDiveUpdatedNavigates ==
  [][Routes("deep_dive_updated") =>
       /\ Refreshes({"deepDives"})
       /\ IF Arrived.data.id # NoId
          THEN step' = 2 /\ selectedDiveJobId' = Arrived.data.id
          ELSE UNCHANGED navVars]_vars

\* deep_dive_updated for record 2 arrived while record 1 was on screen
C19_Witness ==
  /\ Len(inbound) > 1
  /\ inbound[1].data = Msg("deep_dive_updated", 1, "")
  /\ inbound[Len(inbound)].data = Msg("deep_dive_updated", 2, "")
  /\ step = 2
  /\ selectedDiveJobId = 2
  /\ Len(requests["deepDives"]) = 3

\* C20: an event whose name no branch handles, and a view_changed whose
\* view name is not a key of the view map, change no state and issue no
\* refresh.
C20_UnknownIsIgnored ==
  [][(\/ Routes("other")
      \/ Routes("view_changed") /\ Arrived.data.view \notin DOMAIN ViewMap)
       => UNCHANGED <<storeVars, navVars>>]_vars


(***************************************************************************)
(* Claims on the animation marks                                           *)
(***************************************************************************)

\* C21: for a transition from a previous Snapshot A to B, the ids marked
\* entering afterwards are the ids of B that are not in A when A is
\* non-empty, also when the transition removes ids; none when A is empty.
C21_EnteringIsAdded ==
  [][(IsRefresh /\ prevJobsRef = jobs) =>
       enteringIds' = IF jobs = <<>> THEN {}
                      ELSE IdSet(jobs') \ IdSet(jobs)]_vars


\* C22: a clear-timer never changes the marks of a later cycle: when an
\* entrance or settle timeout fires while a timeout scheduled later (by the
\* cycle that set the marks now held) is still pending, the entering and
\* settled sets stay as they are.
C22_NoStaleTimerEffect ==
  [][/\ (0 \in enterTimers /\ enterTimers' = enterTimers \ {0} /\ enterTimers' # {})
          => enteringIds' = enteringIds
     /\ (0 \in settleTimers /\ settleTimers' = settleTimers \ {0} /\ settleTimers' # {})
          => settledIds' = settledIds]_vars


\* C23: during a drag, the direction held for the hovered row is 'down'
\* (after) exactly when that row's index in the displayed non-exiting order
\* is greater than the dragged row's, else 'up' (before).  A dragOver on the
\* hovered row can fire in every such state and leaves it as it is, so each
\* of them is the state after the latest dragOver, also when the order
\* changed since the dragOver before it.
C23_DirectionIsCurrent ==
  (/\ draggedId # NoId
   /\ dragOverId # NoId
   /\ {draggedId, dragOverId} \subseteq Range(DisplayedIds))
  => dragDirection = Direction(DisplayedIds, draggedId, dragOverId)


\* C24: in the displayed sequence (sortedJobs), under every sort key and
\* direction and without sort, every row that is not exiting precedes every
\* row that is.
C24_ExitingRowsLast ==
  \A i, k \in DOMAIN SortedJobs :
    (/\ SortedJobs[i].job_id \notin Range(exitingIds)
     /\ SortedJobs[k].job_id \in Range(exitingIds))
    => i < k

\* a descending sort is active while a row is exiting whose column value
\* would place it before a row that stays
C24_Witness ==
  /\ sortKey = "days_ago"
  /\ ~sortAsc
  /\ \E i, k \in DOMAIN AllJobs :
       /\ AllJobs[i].job_id \notin Range(exitingIds)
       /\ AllJobs[k].job_id \in Range(exitingIds)
       /\ CompareByColumn(AllJobs[k], AllJobs[i], exitingIds, sortKey, sortAsc) < 0


\* C25: a drop that issues a reorder command sets the sort key to none,
\* whatever sort was active, and leaves the dragged id settled; when the
\* settle timeout fires the settled marks are removed.
C25_DropResetsSortAndSettles ==
  /\ [][reorderOut' # <<>> =>
          /\ draggedId # NoId
          /\ sortKey' = "null"
          /\ settledIds' = {draggedId}
          /\ settleTimers' # {}]_vars
  /\ [][(0 \in settleTimers /\ settleTimers' = settleTimers \ {0})
          => settledIds' = {}]_vars

\* a drop made under a descending sort issued its command (the sort is
\* gone, the direction flag is what is left of it), and the settle timeout
\* has since removed the mark
C25_Witness ==
  /\ gesture = "reordered"
  /\ sortKey = "null"
  /\ ~sortAsc
  /\ settledIds = {}
  /\ settleTimers = {}


(***************************************************************************)
(* Claims on the application detail and the selections                     *)
(***************************************************************************)

\* C26: once an application_updated event naming application X has been
\* routed and every fetch issued so far has completed successfully, X is
\* selected and the detail on screen is X's.
C26_DetailIsSelected ==
  (/\ inbound # <<>>
   /\ inbound[Len(inbound)].kind = "json"
   /\ inbound[Len(inbound)].data.event = "application_updated"
   /\ inbound[Len(inbound)].data.id # NoId
   /\ \A i \in DOMAIN appRequests : appRequests[i].status = "ok"
   /\ \A i \in DOMAIN requests["applications"] :
        requests["applications"][i].status = "ok")
  => /\ selectedAppId = inbound[Len(inbound)].data.id
     /\ currentApplication = selectedAppId


(***************************************************************************)
(* Claims on the connections of the push channel                           *)
(***************************************************************************)
\* the sockets that are connecting or open
LiveConnections == {i \in DOMAIN sockets : sockets[i] \in {"connecting", "open"}}

\* C27: before the owner closes the channel, at most one connection is
\* connecting or open, at most one reconnect timer is pending, and never
\* both a live connection and a pending timer.
C27_OneConnectionOrTimer ==
  ~unmounted =>
    /\ Cardinality(LiveConnections) <= 1
    /\ Len(reconnectTimers) <= 1
    /\ ~(LiveConnections # {} /\ reconnectTimers # <<>>)

\* a connection carried a message, the channel has reconnected since, and
\* now every connection is gone again while the one reconnect timer runs
C27_Witness ==
  /\ ~unmounted
  /\ inbound # <<>>
  /\ AllClosed
  /\ sockets # <<>>
  /\ Len(reconnectTimers) = 1
  /\ reconnectTimers[1] < Ticks(ReconnectMs)
  /\ attempts # 1 % MaxConnects


\* C28: after saveSelections, as long as no selections refresh issued after
\* it has completed, the selected-id list on screen is the list it was
\* given.
C28_SavedSelectionStays ==
  (/\ saved # <<>>
   /\ \A i \in DOMAIN requests["selections"] :
        i > saved[1].issued => requests["selections"][i].status = "pending")
  => store["selections"] = saved[1].ids


\* C29: a connection opening, on the first connect or on a reconnect,
\* issues no refresh and changes no store; more, no event of the channel
\* other than a message does: the stores keep what they held before the
\* disconnect until the next push event is routed.
C29_OpenRefreshesNothing ==
  [][(\/ \E i \in DOMAIN sockets : sockets[i] = "connecting" /\ sockets'[i] = "open"
      \/ ~Arrives)
       => UNCHANGED <<store, deepDivesLoaded, requests, escaped>>]_vars

\* the connection of a reconnect has opened after an earlier connection had
\* routed an event, and no fetch has been issued
C29_Witness ==
  /\ sockets = <<"open">>
  /\ attempts # 1 % MaxConnects
  /\ step = 2
  /\ ~unmounted
  /\ \A s \in Stores : requests[s] = <<>>


(***************************************************************************)
(* Claims on the deep-dive list                                            *)
(***************************************************************************)
\* the list handed to DeepDiveList
DisplayedDives == FilteredDeepDives(store["deepDives"], showArchivedDives)

\* C30: while the "show archived" toggle is off, the displayed deep-dive
\* list holds no archived record, in whatever order the responses of the
\* fetches with and without include_archived arrive.
C30_NoArchivedWhenOff ==
  ~showArchivedDives => \A i \in DOMAIN DisplayedDives : ~IsArchived(DisplayedDives[i])

\* the toggle is off again, and the response of the fetch issued while it
\* was on arrived after the response of the fetch issued when it went off:
\* the store holds an archived record, the list on screen does not
C30_Witness ==
  /\ ~showArchivedDives
  /\ Len(requests["deepDives"]) > 2
  /\ includeArchived[2]
  /\ ~includeArchived[3]
  /\ requests["deepDives"][3].status = "ok"
  /\ requests["deepDives"][2].status = "ok"
  /\ store["deepDives"] = requests["deepDives"][2].result
  /\ \E i \in DOMAIN store["deepDives"] : IsArchived(store["deepDives"][i])
  /\ DisplayedDives # <<>>
  /\ step = 2

====
